---- MODULE Spec2Model ----
(***************************************************************************)
(* Model of pbalign/tools/mask_aligned_reads.py: AlignedReadsMasker        *)
(* (maskAlignedReads, _extractAlignedReads) and run().                     *)
(*                                                                         *)
(* File names are sequences of one-character strings so that endswith,     *)
(* the regular expressions and the os.path functions are computed on the   *)
(* characters, as Python computes them.                                    *)
(***************************************************************************)
EXTENDS Integers, Sequences, FiniteSets, TLC

\* ------------------------------------------------------------------ bounds
MaxAln == 2
MaxLines == 2

\* ---------------------------------------------------------- string helpers
Digits == {"0", "1", "2", "3", "4", "5", "6", "7", "8", "9"}
Whitespace == {" "}

\* the six characters of "rgn.h5"
RgnH5 == <<"r", "g", "n", ".", "h", "5">>
\* the seven characters of ".rgn.h5"
DotRgnH5 == <<".">> \o RgnH5

\* str.endswith
EndsWith(s, suf) ==
    /\ Len(s) >= Len(suf)
    /\ SubSeq(s, Len(s) - Len(suf) + 1, Len(s)) = suf

\* str.strip(): leading and trailing whitespace removed
RECURSIVE Strip(_)
Strip(s) ==
    IF s = <<>> THEN s
    ELSE IF s[1] \in Whitespace THEN Strip(Tail(s))
    ELSE IF s[Len(s)] \in Whitespace THEN Strip(SubSeq(s, 1, Len(s) - 1))
    ELSE s

\* str.rfind, 1-based, 0 when absent
LastIndexOf(s, c) ==
    LET I == {i \in 1..Len(s) : s[i] = c}
    IN IF I = {} THEN 0 ELSE CHOOSE i \in I : \A j \in I : j <= i

\* str.find, 1-based, 0 when absent
FirstIndexOf(s, c) ==
    LET I == {i \in 1..Len(s) : s[i] = c}
    IN IF I = {} THEN 0 ELSE CHOOSE i \in I : \A j \in I : i <= j

\* rx = re.compile(r'\.[0-9].rgn\.h5'): a match starting at i is a literal
\* '.', one digit, ANY one character (the unescaped '.'), then "rgn.h5"
RxMatchAt(s, i) ==
    /\ i + 8 <= Len(s)
    /\ s[i] = "."
    /\ s[i + 1] \in Digits
    /\ SubSeq(s, i + 3, i + 8) = RgnH5

\* rx.search(basename): a match anywhere in the string
RxSearch(s) == \E i \in 1..Len(s) : RxMatchAt(s, i)

\* a match of r'.rgn\.h5' starting at j: any one character, then "rgn.h5"
SplitMatchAt(s, j) ==
    /\ j + 6 <= Len(s)
    /\ SubSeq(s, j + 1, j + 6) = RgnH5

\* re.split(r'.rgn\.h5', basename)[0]: the text before the leftmost match
ReSplitFirst(s) ==
    LET J == {j \in 1..Len(s) : SplitMatchAt(s, j)}
    IN IF J = {} THEN s
       ELSE SubSeq(s, 1, (CHOOSE j \in J : \A x \in J : j <= x) - 1)

\* os.path.basename
Basename(p) == SubSeq(p, LastIndexOf(p, "/") + 1, Len(p))

\* os.path.dirname of an absolute normalised path
Dirname(p) ==
    LET i == LastIndexOf(p, "/")
    IN IF i <= 1 THEN <<"/">> ELSE SubSeq(p, 1, i - 1)

\* os.path.splitext(p)[0]: cut at the last dot of the last component,
\* unless that component has only dots before it
SplitextRoot(p) ==
    LET sep == LastIndexOf(p, "/")
        dot == LastIndexOf(p, ".")
    IN IF dot > sep /\ \E i \in (sep + 1)..(dot - 1) : p[i] # "."
       THEN SubSeq(p, 1, dot - 1)
       ELSE p

\* os.path.join(a, b)
Join(a, b) ==
    IF b # <<>> /\ b[1] = "/" THEN b
    ELSE IF a = <<>> \/ a[Len(a)] = "/" THEN a \o b
    ELSE a \o <<"/">> \o b

\* p.split('/')
RECURSIVE SplitSlash(_)
SplitSlash(p) ==
    LET i == FirstIndexOf(p, "/")
    IN IF i = 0 THEN <<p>>
       ELSE <<SubSeq(p, 1, i - 1)>> \o SplitSlash(SubSeq(p, i + 1, Len(p)))

\* the component loop of posixpath.normpath for an absolute path
RECURSIVE NormComps(_, _)
NormComps(comps, acc) ==
    IF comps = <<>> THEN acc
    ELSE LET c == Head(comps)
         IN IF c = <<>> \/ c = <<".">> THEN NormComps(Tail(comps), acc)
            ELSE IF c = <<".", ".">>
                 THEN NormComps(Tail(comps),
                                IF acc = <<>> THEN acc
                                ELSE SubSeq(acc, 1, Len(acc) - 1))
            ELSE NormComps(Tail(comps), Append(acc, c))

\* '/'.join(comps) with the leading slash
RECURSIVE JoinSlash(_)
JoinSlash(comps) ==
    IF comps = <<>> THEN <<>>
    ELSE <<"/">> \o Head(comps) \o JoinSlash(Tail(comps))

\* the working directory of the process
Cwd == <<"/", "w">>

\* os.path.abspath: join with the working directory, then normpath
Abspath(p) ==
    LET q == Join(Cwd, p)
        n == JoinSlash(NormComps(SplitSlash(q), <<>>))
    IN IF n = <<>> THEN <<"/">> ELSE n


\* ------------------------------------------------------------ the inputs
\* movie names (character sequences, since they become file-name stems)
M1 == <<"M", "1">>
M2 == <<"M", "2">>
Holes == {1, 2}

\* a sub-region of a region record
HQ(s, e, sc) == [type |-> "HQRegion", start |-> s, end |-> e, score |-> sc]
Ins(s, e) == [type |-> "Insert", start |-> s, end |-> e, score |-> -1]
Rec(h, regs) == [holeNumber |-> h, regions |-> regs]

\* paths of region-table files
PathAM1 == <<"a", "/", "m", ".", "1", ".", "r", "g", "n", ".", "h", "5">>
PathBM1 == <<"b", "/", "m", ".", "1", ".", "r", "g", "n", ".", "h", "5">>
PathAX == <<"a", "/", "x", ".", "r", "g", "n", ".", "h", "5">>
PathBY == <<"b", "/", "y", ".", "r", "g", "n", ".", "h", "5">>
PathOdd == <<"m", ".", "3", "x", "r", "g", "n", ".", "h", "5">>
PathBad == <<"a", "/", "b", "a", "d", ".", "r", "g", "n", ".", "h", "5">>
PathNone == <<"a", "/", "n", "o", ".", "r", "g", "n", ".", "h", "5">>
PathTxt == <<"f", "o", "o", ".", "t", "x", "t">>

\* The region-table files on disk: declared movie name, scan data group,
\* the records in file order, and badAt, the position of a record that
\* cannot be decoded (0: every record decodes).
RgnFS ==
    (PathAM1 :> [movieName |-> M1, scanDataGroup |-> "S1", badAt |-> 0,
                 records |-> <<Rec(1, <<Ins(0, 5), HQ(2, 9, 800)>>),
                               Rec(2, <<Ins(0, 7)>>)>>])
    @@ (PathBM1 :> [movieName |-> M2, scanDataGroup |-> "S2", badAt |-> 0,
                 records |-> <<Rec(1, <<HQ(0, 0, 0), Ins(1, 3)>>)>>])
    @@ (PathAX :> [movieName |-> M1, scanDataGroup |-> "S3", badAt |-> 0,
                 records |-> <<Rec(2, <<HQ(1, 5, 700)>>),
                               Rec(1, <<HQ(3, 4, 600), Ins(3, 4)>>)>>])
    @@ (PathBY :> [movieName |-> M1, scanDataGroup |-> "S4", badAt |-> 0,
                 records |-> <<Rec(1, <<HQ(4, 8, 500)>>)>>])
    @@ (PathOdd :> [movieName |-> M2, scanDataGroup |-> "S5", badAt |-> 0,
                 records |-> <<Rec(2, <<HQ(2, 6, 900)>>)>>])
    @@ (PathBad :> [movieName |-> M1, scanDataGroup |-> "S6", badAt |-> 2,
                 records |-> <<Rec(1, <<HQ(5, 6, 400)>>)>>])

\* the lines an input manifest is made of (one has trailing whitespace;
\* PathNone names no file; PathTxt is not a region table)
ManifestLines ==
    {PathAM1, PathBM1, PathAX \o <<" ">>, PathBY, PathOdd, PathBad,
     PathNone, PathTxt}

\* the output manifest paths: relative with an extension, in a directory
\* that does not exist, and without an extension
OutFofnPaths == {<<"o", ".", "f", "o", "f", "n">>, <<"/", "x", "/", "o", ".", "f", "o", "f", "n">>, <<"o">>}

SeqsUpTo(S, n) == UNION {[1..m -> S] : m \in 0..n}


\* --------------------------------------------------- pbalign.utils.RgnH5IO
\* RegionTable.setHQRegion: the start and end of the HQRegion sub-region are
\* replaced, its score and every other sub-region are kept; a record
\* without an HQRegion sub-region is unchanged
SetHQRegion(rt, hqStart, hqEnd) ==
    [rt EXCEPT !.regions =
        [i \in 1..Len(rt.regions) |->
            IF rt.regions[i].type = "HQRegion"
            THEN [rt.regions[i] EXCEPT !.start = hqStart, !.end = hqEnd]
            ELSE rt.regions[i]]]

\* RgnH5Writer.addRegionTable: the record is appended to the output
AddRegionTable(recs, rt) == Append(recs, rt)

\* RgnH5Writer(path): the file is created, or truncated when it exists
NewRgnFile == [scanDataGroup |-> "none", records |-> <<>>, closed |-> FALSE]

\* the HQRegion sub-regions of a record (lookup by type)
HQRegionsOf(rt) ==
    {i \in 1..Len(rt.regions) : rt.regions[i].type = "HQRegion"}

\* ------------------------------------------------------------- the state
VARIABLES
    movieTable,     \* reader.movieInfoTable.Name of the cmp.h5 archive
    alnRecords,     \* the alignment records of the archive: <<movie, hole>>
    inRgnFofn,      \* the lines of the input manifest, as in the file
    outRgnFofn,     \* self.outRgnFofn, the output manifest path
    pc,             \* position in run / maskAlignedReads
    alignedReads,   \* the dict built by _extractAlignedReads
    alnPos,         \* position of `for i in reader`
    cmpOpen,        \* CmpH5Reader: "never", "open", "closed"
    warned,         \* logging.warn("No aligned reads found ...") was called
    outDir,         \* the local outDir
    dirs,           \* the directories that exist (absolute paths)
    fofnExists,     \* the output manifest file exists on disk
    fofnOpen,       \* the output manifest handle is open
    fofnLines,      \* the lines written to the output manifest
    lines,          \* the stripped lines the for loop walks
    k,              \* index of the loop over lines
    openReaders,    \* loop indices whose RgnH5Reader is open
    openWriters,    \* loop indices whose RgnH5Writer is open
    movieName,      \* the local movieName
    outH5FN,        \* the local outH5FN
    recPos,         \* position of `for rt in rgnReader`
    outFiles,       \* output region tables on disk: absolute path -> file
    written,        \* per loop index, the records passed to addRegionTable
    err,            \* what logging.error reported: "none" or the error
    maskRet,        \* return value of maskAlignedReads (-1: none)
    rcode           \* return value of run (-1: not returned)

vars == <<movieTable, alnRecords, inRgnFofn, outRgnFofn, pc, alignedReads,
          alnPos, cmpOpen, warned, outDir, dirs, fofnExists, fofnOpen,
          fofnLines, lines, k, openReaders, openWriters, movieName, outH5FN,
          recPos, outFiles, written, err, maskRet, rcode>>

inputs == <<movieTable, alnRecords, inRgnFofn, outRgnFofn>>
extractVars == <<alignedReads, alnPos, cmpOpen, warned>>
fofnVars == <<fofnExists, fofnOpen, fofnLines>>
fileVars == <<openReaders, openWriters, movieName, outH5FN, recPos, outFiles,
              written>>

EmptyDict == [m \in {} |-> {}]

Init ==
    /\ movieTable \in {{M1}, {M1, M2}}
    /\ alnRecords \in SeqsUpTo(movieTable \X Holes, MaxAln)
    /\ inRgnFofn \in SeqsUpTo(ManifestLines, MaxLines)
    /\ outRgnFofn \in OutFofnPaths
    /\ pc = "extract_open"
    /\ alignedReads = EmptyDict
    /\ alnPos = 0
    /\ cmpOpen = "never"
    /\ warned = FALSE
    /\ outDir = <<>>
    /\ dirs = {<<"/">>, Cwd}
    /\ fofnExists = FALSE
    /\ fofnOpen = FALSE
    /\ fofnLines = <<>>
    /\ lines = <<>>
    /\ k = 0
    /\ openReaders = {}
    /\ openWriters = {}
    /\ movieName = <<>>
    /\ outH5FN = <<>>
    /\ recPos = 0
    /\ outFiles = [p \in {} |-> NewRgnFile]
    /\ written = <<>>
    /\ err = "none"
    /\ maskRet = -1
    /\ rcode = -1

\* ------------------------------------------------- _extractAlignedReads
\* alignedReads.setdefault(movie, set()) for every movie of the table
SeedMovieTable(d, movies) ==
    [m \in DOMAIN d \cup movies |-> IF m \in DOMAIN d THEN d[m] ELSE {}]

\* mutant of AddRead: the set is replaced instead of extended
AddRead_overwrite(d, movie, hole) == [d EXCEPT ![movie] = {hole}]

\* alignedReads[i.movieInfo.Name].add(i.HoleNumber)
AddRead(d, movie, hole) == [d EXCEPT ![movie] = d[movie] \cup {hole}]

\* alignedReads = {}; reader = CmpH5Reader(self.inCmpFile): an archive
\* without alignment records makes the reader raise EmptyCmpH5Error (older
\* readers: IndexError)
ExtractOpen ==
    /\ pc = "extract_open"
    /\ alignedReads' = EmptyDict
    /\ IF alnRecords = <<>>
       THEN /\ pc' = "extract_except"
            /\ UNCHANGED cmpOpen
       ELSE /\ pc' = "extract_seed"
            /\ cmpOpen' = "open"
    /\ UNCHANGED <<inputs, alnPos, warned, outDir, dirs, fofnVars, lines, k,
                   fileVars, err, maskRet, rcode>>

\* for movie in reader.movieInfoTable.Name: setdefault
ExtractSeed ==
    /\ pc = "extract_seed"
    /\ alignedReads' = SeedMovieTable(alignedReads, movieTable)
    /\ alnPos' = 1
    /\ pc' = "extract_iter"
    /\ UNCHANGED <<inputs, cmpOpen, warned, outDir, dirs, fofnVars, lines, k,
                   fileVars, err, maskRet, rcode>>

\* one iteration of `for i in reader`
ExtractAdd ==
    /\ pc = "extract_iter"
    /\ alnPos <= Len(alnRecords)
    /\ alignedReads' = AddRead(alignedReads, alnRecords[alnPos][1],
                               alnRecords[alnPos][2])
    /\ alnPos' = alnPos + 1
    /\ UNCHANGED <<inputs, pc, cmpOpen, warned, outDir, dirs, fofnVars, lines,
                   k, fileVars, err, maskRet, rcode>>

\* reader.close(); return alignedReads
ExtractClose ==
    /\ pc = "extract_iter"
    /\ alnPos > Len(alnRecords)
    /\ cmpOpen' = "closed"
    /\ pc' = "mkdir"
    /\ UNCHANGED <<inputs, alignedReads, alnPos, warned, outDir, dirs,
                   fofnVars, lines, k, fileVars, err, maskRet, rcode>>

\* mutant of ExtractExcept: the reader's error is not caught
ExtractExcept_reraise ==
    /\ pc = "extract_except"
    /\ err' = "EmptyCmpH5Error"
    /\ pc' = "raised"
    /\ UNCHANGED <<inputs, extractVars, outDir, dirs, fofnVars, lines, k,
                   fileVars, maskRet, rcode>>

\* except (IndexError, EmptyCmpH5Error): warn; return alignedReads
ExtractExcept ==
    /\ pc = "extract_except"
    /\ warned' = TRUE
    /\ pc' = "mkdir"
    /\ UNCHANGED <<inputs, alignedReads, alnPos, cmpOpen, outDir, dirs,
                   fofnVars, lines, k, fileVars, err, maskRet, rcode>>


\* ----------------------------------------------------- maskAlignedReads
\* outDir = os.path.splitext(self.outRgnFofn)[0];
\* if not os.path.exists(outDir): os.mkdir(outDir)
\* (os.mkdir raises OSError when the parent directory does not exist)
MakeOutDir ==
    /\ pc = "mkdir"
    /\ outDir' = SplitextRoot(outRgnFofn)
    /\ LET d == Abspath(outDir')
       IN IF d \in dirs
          THEN /\ pc' = "open_fofn"
               /\ UNCHANGED <<dirs, err>>
          ELSE IF Dirname(d) \in dirs
          THEN /\ dirs' = dirs \cup {d}
               /\ pc' = "open_fofn"
               /\ UNCHANGED err
          ELSE /\ err' = "OSError"
               /\ pc' = "raised"
               /\ UNCHANGED dirs
    /\ UNCHANGED <<inputs, extractVars, fofnVars, lines, k, fileVars,
                   maskRet, rcode>>

\* outRgnFofn = open(self.outRgnFofn, 'w'): the file is created empty;
\* IOError when the path is a directory or its directory does not exist
OpenOutFofn ==
    /\ pc = "open_fofn"
    /\ LET f == Abspath(outRgnFofn)
       IN IF f \in dirs \/ Dirname(f) \notin dirs
          THEN /\ err' = "IOError"
               /\ pc' = "raised"
               /\ UNCHANGED fofnVars
          ELSE /\ fofnExists' = TRUE
               /\ fofnOpen' = TRUE
               /\ fofnLines' = <<>>
               /\ pc' = "read_lines"
               /\ UNCHANGED err
    /\ UNCHANGED <<inputs, extractVars, outDir, dirs, lines, k, fileVars,
                   maskRet, rcode>>

\* [line.strip() for line in open(self.inRgnFofn, 'r')]
ReadLines ==
    /\ pc = "read_lines"
    /\ lines' = [i \in 1..Len(inRgnFofn) |-> Strip(inRgnFofn[i])]
    /\ k' = 1
    /\ pc' = "check_line"
    /\ UNCHANGED <<inputs, extractVars, outDir, dirs, fofnVars, fileVars,
                   err, maskRet, rcode>>

\* rgnH5FN.endswith("rgn.h5")
IsRgnH5(rgnH5FN) == EndsWith(rgnH5FN, RgnH5)

\* the next line of the loop: not a rgn.h5 name -> logging.error; return 1
CheckLine ==
    /\ pc = "check_line"
    /\ k <= Len(lines)
    /\ IF ~IsRgnH5(lines[k])
       THEN /\ err' = "InvalidManifestEntry"
            /\ maskRet' = 1
            /\ pc' = "returned"
       ELSE /\ pc' = "open_reader"
            /\ UNCHANGED <<err, maskRet>>
    /\ UNCHANGED <<inputs, extractVars, outDir, dirs, fofnVars, lines, k,
                   fileVars, rcode>>

\* rgnReader = RgnH5Reader(rgnH5FN): IOError when the file does not exist
OpenReader ==
    /\ pc = "open_reader"
    /\ IF lines[k] \notin DOMAIN RgnFS
       THEN /\ err' = "IOError"
            /\ pc' = "raised"
            /\ UNCHANGED openReaders
       ELSE /\ openReaders' = openReaders \cup {k}
            /\ pc' = "plan"
            /\ UNCHANGED err
    /\ UNCHANGED <<inputs, extractVars, outDir, dirs, fofnVars, lines, k,
                   openWriters, movieName, outH5FN, recPos, outFiles, written,
                   maskRet, rcode>>

\* movieId: the bax-style stem when rx matches the base name, else the
\* movie name declared in the file
MovieId(basename, declared) ==
    IF RxSearch(basename) THEN ReSplitFirst(basename) ELSE declared

\* outH5FN = os.path.abspath(os.path.join(outDir, movieId + ".rgn.h5"))
PlanOutputPath(rgnH5FN, declared, dir) ==
    Abspath(Join(dir, MovieId(Basename(rgnH5FN), declared) \o DotRgnH5))

\* movieName = rgnReader.movieName; outH5FN = ...;
\* outRgnFofn.write("{o}\n".format(o=outH5FN))
PlanAndList ==
    /\ pc = "plan"
    /\ movieName' = RgnFS[lines[k]].movieName
    /\ outH5FN' = PlanOutputPath(lines[k], movieName', outDir)
    /\ fofnLines' = Append(fofnLines, outH5FN')
    /\ pc' = "open_writer"
    /\ UNCHANGED <<inputs, extractVars, outDir, dirs, fofnExists, fofnOpen,
                   lines, k, openReaders, openWriters, recPos, outFiles,
                   written, err, maskRet, rcode>>

\* rgnWriter = RgnH5Writer(outH5FN)
OpenWriter ==
    /\ pc = "open_writer"
    /\ outFiles' = [p \in DOMAIN outFiles \cup {outH5FN} |->
                       IF p = outH5FN THEN NewRgnFile ELSE outFiles[p]]
    /\ openWriters' = openWriters \cup {k}
    /\ written' = Append(written, <<>>)
    /\ pc' = "write_scan"
    /\ UNCHANGED <<inputs, extractVars, outDir, dirs, fofnVars, lines, k,
                   openReaders, movieName, outH5FN, recPos, err, maskRet,
                   rcode>>

\* rgnWriter.writeScanDataGroup(rgnReader.scanDataGroup)
WriteScanData ==
    /\ pc = "write_scan"
    /\ outFiles' = [outFiles EXCEPT ![outH5FN].scanDataGroup =
                                        RgnFS[lines[k]].scanDataGroup]
    /\ recPos' = 1
    /\ pc' = "records"
    /\ UNCHANGED <<inputs, extractVars, outDir, dirs, fofnVars, lines, k,
                   openReaders, openWriters, movieName, outH5FN, written,
                   err, maskRet, rcode>>

\* mutant of ShouldMask: the hole number is looked up under every movie
ShouldMask_anyMovie(movie, holeNumber, d) ==
    \E m \in DOMAIN d : holeNumber \in d[m]

\* movieName in alignedReads and rt.holeNumber in alignedReads[movieName]
ShouldMask(movie, holeNumber, d) ==
    movie \in DOMAIN d /\ holeNumber \in d[movie]

\* mutant of LoopBody: addRegionTable is called for unmasked records only
LoopBody_dropMasked(rt, movie, d, out) ==
    IF movie \in DOMAIN d /\ rt.holeNumber \in d[movie]
    THEN out
    ELSE AddRegionTable(out, rt)

\* the body of `for rt in rgnReader`: mask when aligned, then
\* rgnWriter.addRegionTable(rt); out is the writer's record stream
LoopBody(rt, movie, d, out) ==
    AddRegionTable(out, IF ShouldMask(movie, rt.holeNumber, d)
                        THEN SetHQRegion(rt, 0, 0)
                        ELSE rt)

\* one iteration of `for rt in rgnReader`; a record that cannot be decoded
\* raises out of the iterator
MaskRecord ==
    /\ pc = "records"
    /\ LET f == RgnFS[lines[k]]
       IN IF recPos = f.badAt
          THEN /\ err' = "RecordDecodeError"
               /\ pc' = "raised"
               /\ UNCHANGED <<recPos, outFiles, written>>
          ELSE /\ recPos <= Len(f.records)
               /\ written' = [written EXCEPT ![Len(written)] =
                     LoopBody(f.records[recPos], movieName, alignedReads, @)]
               /\ outFiles' = [outFiles EXCEPT ![outH5FN].records =
                     LoopBody(f.records[recPos], movieName, alignedReads, @)]
               /\ recPos' = recPos + 1
               /\ UNCHANGED <<pc, err>>
    /\ UNCHANGED <<inputs, extractVars, outDir, dirs, fofnVars, lines, k,
                   openReaders, openWriters, movieName, outH5FN, maskRet,
                   rcode>>

\* the iterator is exhausted: rgnReader.close(); rgnWriter.close()
ClosePair ==
    /\ pc = "records"
    /\ recPos > Len(RgnFS[lines[k]].records)
    /\ recPos # RgnFS[lines[k]].badAt
    /\ openReaders' = openReaders \ {k}
    /\ openWriters' = openWriters \ {k}
    /\ outFiles' = [outFiles EXCEPT ![outH5FN].closed = TRUE]
    /\ k' = k + 1
    /\ pc' = "check_line"
    /\ UNCHANGED <<inputs, extractVars, outDir, dirs, fofnVars, lines,
                   movieName, outH5FN, recPos, written, err, maskRet, rcode>>

\* the loop over lines is over: outRgnFofn.close(); return 0
CloseOutFofn ==
    /\ pc = "check_line"
    /\ k > Len(lines)
    /\ fofnOpen' = FALSE
    /\ maskRet' = 0
    /\ pc' = "returned"
    /\ UNCHANGED <<inputs, extractVars, outDir, dirs, fofnExists, fofnLines,
                   lines, k, fileVars, err, rcode>>

\* ------------------------------------------------------------------ run
\* masker.maskAlignedReads() returned (its value is not used); return 0
RunReturn ==
    /\ pc = "returned"
    /\ rcode' = 0
    /\ pc' = "done"
    /\ UNCHANGED <<inputs, extractVars, outDir, dirs, fofnVars, lines, k,
                   fileVars, err, maskRet>>

\* except Exception as e: logging.error(e); return 1
RunExcept ==
    /\ pc = "raised"
    /\ rcode' = 1
    /\ pc' = "done"
    /\ UNCHANGED <<inputs, extractVars, outDir, dirs, fofnVars, lines, k,
                   fileVars, err, maskRet>>

Next ==
    \/ ExtractOpen
    \/ ExtractSeed
    \/ ExtractAdd
    \/ ExtractClose
    \/ ExtractExcept
    \/ MakeOutDir
    \/ OpenOutFofn
    \/ ReadLines
    \/ CheckLine
    \/ OpenReader
    \/ PlanAndList
    \/ OpenWriter
    \/ WriteScanData
    \/ MaskRecord
    \/ ClosePair
    \/ CloseOutFofn
    \/ RunReturn
    \/ RunExcept

Spec == Init /\ [][Next]_vars


\* ------------------------------------------------------------ properties
\* _extractAlignedReads has returned
PostExtract ==
    pc \notin {"extract_open", "extract_seed", "extract_iter",
               "extract_except"}

\* maskAlignedReads or run is over
Exited == pc \in {"returned", "raised", "done"}

\* the input record that became the i-th record passed to the j-th writer
InRec(j, i) == RgnFS[lines[j]].records[i]

\* (declared movie name of the j-th input, hole number) is in the index
InIndex(j, holeNumber) ==
    /\ RgnFS[lines[j]].movieName \in DOMAIN alignedReads
    /\ holeNumber \in alignedReads[RgnFS[lines[j]].movieName]

\* the positions of the records passed to the writers so far
WrittenPos == {<<j, i>> \in (1..Len(written)) \X (1..2) : i <= Len(written[j])}

\* C1 (as stated): an output record has HQRegion (start, end) = (0, 0) if
\* and only if its (movie, hole) pair is in the index and the record has an
\* HQRegion sub-region.
C1_Original ==
    \A <<j, i>> \in WrittenPos :
        (\E r \in HQRegionsOf(written[j][i]) :
              /\ written[j][i].regions[r].start = 0
              /\ written[j][i].regions[r].end = 0)
        <=> (InIndex(j, InRec(j, i).holeNumber) /\ HQRegionsOf(InRec(j, i)) # {})

\* C1 (amended): for every record passed to the writer, if its (movie,
\* hole) pair is in the index, its HQRegion sub-region (when it has one) has
\* start and end 0; otherwise the HQRegion is the input's. In all cases the
\* HQRegion score and every other sub-region are the input's.
C1_Selectivity ==
    \A <<j, i>> \in WrittenPos :
        LET in == InRec(j, i)
            out == written[j][i]
        IN /\ out.holeNumber = in.holeNumber
           /\ Len(out.regions) = Len(in.regions)
           /\ \A r \in 1..Len(in.regions) :
                /\ out.regions[r].type = in.regions[r].type
                /\ out.regions[r].score = in.regions[r].score
                /\ IF in.regions[r].type = "HQRegion"
                      /\ InIndex(j, in.holeNumber)
                   THEN out.regions[r].start = 0 /\ out.regions[r].end = 0
                   ELSE /\ out.regions[r].start = in.regions[r].start
                        /\ out.regions[r].end = in.regions[r].end

\* a record with a non-empty HQRegion was masked, a record of a movie that
\* is not a key of the index was forwarded, and the run is over
C1_Witness ==
    /\ pc = "done"
    /\ \E <<j, i>> \in WrittenPos :
          /\ InIndex(j, InRec(j, i).holeNumber)
          /\ \E r \in HQRegionsOf(InRec(j, i)) : InRec(j, i).regions[r].end > 0
    /\ \E <<j, i>> \in WrittenPos :
          RgnFS[lines[j]].movieName \notin DOMAIN alignedReads

\* C2: for every input file processed to completion, the records passed to
\* the writer are as many as the file's records, in the same order and with
\* the same hole numbers.
C2_Conservation ==
    \A j \in 1..Len(written) :
        (j < k) =>
            /\ Len(written[j]) = Len(RgnFS[lines[j]].records)
            /\ \A i \in 1..Len(written[j]) :
                  written[j][i].holeNumber = InRec(j, i).holeNumber

\* two files were processed to completion, one of them with two records,
\* and a record was masked on the way
C2_Witness ==
    /\ pc = "done"
    /\ k = 3
    /\ \E j \in 1..2 : Len(written[j]) = 2
    /\ \E <<j, i>> \in WrittenPos : written[j][i] # InRec(j, i)

\* C3: run returns 0 exactly when no fatal error happened, and 1 otherwise.
C3_ExitCode ==
    pc = "done" => /\ rcode \in {0, 1}
                   /\ rcode = 0 <=> err = "none"

\* C4: when some line of the input manifest does not name a rgn.h5 file, at
\* the end of the run the output manifest does not exist and no output
\* region table was written.
C4_ValidationFirst ==
    (pc = "done" /\ \E i \in 1..Len(inRgnFofn) : ~IsRgnH5(Strip(inRgnFofn[i])))
        => ~fofnExists /\ DOMAIN outFiles = {}

\* C5: at every point the output manifest has exactly one line per input
\* file completely processed, each naming an output file that is closed.
C5_ManifestIncremental ==
    /\ Len(fofnLines) = (IF k = 0 THEN 0 ELSE k - 1)
    /\ \A j \in 1..Len(fofnLines) :
          fofnLines[j] \in DOMAIN outFiles /\ outFiles[fofnLines[j]].closed

\* C6: when the archive has no aligned reads, the reader's error is handled
\* inside _extractAlignedReads (a warning), no (movie, hole) pair is in the
\* index, every record is passed to the writer unchanged, and a run without
\* another error returns 0.
C6_GracefulDegrade ==
    (alnRecords = <<>> /\ PostExtract) =>
        /\ warned
        /\ \A m \in DOMAIN alignedReads : alignedReads[m] = {}
        /\ \A <<j, i>> \in WrittenPos : written[j][i] = InRec(j, i)
        /\ (pc = "done" /\ err = "none") => rcode = 0

\* an archive without aligned reads, two files copied, exit code 0
C6_Witness ==
    /\ alnRecords = <<>>
    /\ pc = "done"
    /\ rcode = 0
    /\ err = "none"
    /\ Len(written) = 2
    /\ \A j \in 1..2 : written[j] = RgnFS[lines[j]].records

\* the stem the naming rule gives: the base name without ".rgn.h5" when it
\* ends in '.', one digit, ".rgn.h5"; the declared movie name otherwise
RuleStem(basename, declared) ==
    IF /\ Len(basename) >= 9
       /\ EndsWith(basename, DotRgnH5)
       /\ basename[Len(basename) - 7] \in Digits
       /\ basename[Len(basename) - 8] = "."
    THEN SubSeq(basename, 1, Len(basename) - 7)
    ELSE declared

\* C7: the planned output path of every accepted input is
\* absolute(outDir / (stem + ".rgn.h5")) with the stem of the naming rule.
C7_Naming ==
    pc = "open_writer" =>
        outH5FN = Abspath(Join(SplitextRoot(outRgnFofn),
                               RuleStem(Basename(lines[k]),
                                        RgnFS[lines[k]].movieName)
                               \o DotRgnH5))

\* C8: after a successful run over n lines there are n distinct output
\* region tables, no two lines having been planned the same output path.
C8_OneOutputPerLine ==
    (pc = "done" /\ maskRet = 0) =>
        /\ Cardinality(DOMAIN outFiles) = Len(lines)
        /\ \A i, j \in 1..Len(fofnLines) :
              i # j => fofnLines[i] # fofnLines[j]

\* the hole numbers of the archive's alignment records of a movie
HolesOf(m) ==
    {alnRecords[i][2] : i \in {x \in 1..Len(alnRecords) : alnRecords[x][1] = m}}

IndexComplete ==
    /\ DOMAIN alignedReads = movieTable
    /\ \A m \in movieTable : alignedReads[m] = HolesOf(m)

\* C9: when the archive opened, the index returned by _extractAlignedReads
\* has a key for every movie of the movie table, each with exactly the hole
\* numbers of that movie's alignment records; the index is not modified
\* after _extractAlignedReads returned (so not after a region table opened).
C9_IndexComplete ==
    /\ []((PostExtract /\ cmpOpen # "never") => IndexComplete)
    /\ [](openReaders # {} => PostExtract)
    /\ [][PostExtract => alignedReads' = alignedReads]_vars

\* a region table is open while the index holds a movie without reads and a
\* movie with two hole numbers
C9_Witness ==
    /\ openReaders # {}
    /\ cmpOpen = "closed"
    /\ \E m \in DOMAIN alignedReads : alignedReads[m] = {}
    /\ \E m \in DOMAIN alignedReads : Cardinality(alignedReads[m]) = 2

\* C10: at most one reader and one writer are open at a time, and on every
\* exit path no reader, writer or output manifest handle is open.
C10_Resources ==
    /\ Cardinality(openReaders) <= 1
    /\ Cardinality(openWriters) <= 1
    /\ Exited => openReaders = {} /\ openWriters = {} /\ ~fofnOpen

====
